---- MODULE Spec2Model ----
(***************************************************************************)
(* Backtesting engine of Epsilon-Quant-Research:                           *)
(*   infrastructure/backtester/engine.py               backtest            *)
(*   infrastructure/backtester/performance_metrics.py  the metrics         *)
(*                                                                         *)
(* A call of backtest(data, cost) is one behaviour: the input DataFrame is *)
(* chosen in Init, backtest derives the return columns, identify_trades    *)
(* scans the rows one at a time, and calculate_all_metrics compiles the    *)
(* report.                                                                 *)
(*                                                                         *)
(* Numbers: a float64 is modelled as an exact rational n/d (d > 0, lowest  *)
(* terms) or one of the special values NaN, +inf, -inf, so that pandas'    *)
(* missing-value rules (shift, diff, pct_change, skipna) are kept.         *)
(* Rounding is not modelled.  The square roots of the Sharpe ratio are     *)
(* kept symbolic (see calculate_sharpe_ratio).                             *)
(***************************************************************************)
EXTENDS Integers, Sequences, FiniteSets, TLC

----------------------------------------------------------------------------
(* float64 values *)

RECURSIVE GCD(_, _)
GCD(a, b) ==
    IF b = 0 THEN a ELSE GCD(b, a % b)

AbsInt(a) ==
    IF a < 0 THEN -a ELSE a

SignInt(a) ==
    IF a < 0 THEN -1 ELSE IF a > 0 THEN 1 ELSE 0

NaN ==
    [k |-> "nan", n |-> 0, d |-> 1]

PosInf ==
    [k |-> "inf", n |-> 1, d |-> 1]

NegInf ==
    [k |-> "inf", n |-> -1, d |-> 1]

\* the rational n/d, d # 0, in lowest terms with a positive denominator
Num(n, d) ==
    LET g == GCD(AbsInt(n), AbsInt(d))
        s == IF d < 0 THEN -1 ELSE 1
    IN  [k |-> "num", n |-> s * (n \div g), d |-> s * (d \div g)]

FromInt(n) ==
    [k |-> "num", n |-> n, d |-> 1]

Zero ==
    FromInt(0)

One ==
    FromInt(1)

IsNaN(x) ==
    x.k = "nan"

IsNum(x) ==
    x.k = "num"

IsInf(x) ==
    x.k = "inf"

\* sign of a value that is not NaN
Sign(x) ==
    SignInt(x.n)

Neg(x) ==
    [x EXCEPT !.n = -x.n]

Abs(x) ==
    [x EXCEPT !.n = AbsInt(x.n)]

Add(x, y) ==
    IF IsNaN(x) \/ IsNaN(y) THEN NaN
    ELSE IF IsInf(x) /\ IsInf(y) THEN (IF x.n = y.n THEN x ELSE NaN)
    ELSE IF IsInf(x) THEN x
    ELSE IF IsInf(y) THEN y
    ELSE LET l == (x.d \div GCD(x.d, y.d)) * y.d
         IN  Num(x.n * (l \div x.d) + y.n * (l \div y.d), l)

Sub(x, y) ==
    Add(x, Neg(y))

Mul(x, y) ==
    IF IsNaN(x) \/ IsNaN(y) THEN NaN
    ELSE IF IsInf(x) \/ IsInf(y)
         THEN (IF Sign(x) * Sign(y) = 0 THEN NaN
               ELSE IF Sign(x) * Sign(y) > 0 THEN PosInf ELSE NegInf)
    ELSE LET g1 == GCD(AbsInt(x.n), y.d)
             g2 == GCD(AbsInt(y.n), x.d)
         IN  Num((x.n \div g1) * (y.n \div g2), (x.d \div g2) * (y.d \div g1))

\* numpy float64 division: x/0 is +-inf, 0/0 is NaN, no exception
Div(x, y) ==
    IF IsNaN(x) \/ IsNaN(y) THEN NaN
    ELSE IF IsInf(y) THEN (IF IsInf(x) THEN NaN ELSE Zero)
    ELSE IF y.n = 0
         THEN (IF Sign(x) = 0 THEN NaN ELSE IF Sign(x) > 0 THEN PosInf ELSE NegInf)
    ELSE IF IsInf(x) THEN (IF Sign(x) * Sign(y) > 0 THEN PosInf ELSE NegInf)
    ELSE Mul(x, [k |-> "num", n |-> SignInt(y.n) * y.d, d |-> AbsInt(y.n)])

\* comparisons: every comparison with NaN is false
Lt(x, y) ==
    IF IsNaN(x) \/ IsNaN(y) THEN FALSE
    ELSE IF IsInf(x) THEN x.n < 0 /\ ~(IsInf(y) /\ y.n < 0)
    ELSE IF IsInf(y) THEN y.n > 0
    ELSE x.n * y.d < y.n * x.d

Gt(x, y) ==
    Lt(y, x)

Le(x, y) ==
    ~IsNaN(x) /\ ~IsNaN(y) /\ ~Lt(y, x)

Eq(x, y) ==
    ~IsNaN(x) /\ ~IsNaN(y) /\ x = y

----------------------------------------------------------------------------
(* pandas Series operations, on sequences of values *)

Idx(s) ==
    1 .. Len(s)

\* a series given by a function on 1 .. n, as a sequence
Series(f) ==
    SubSeq(f, 1, Len(f))

\* Series.shift(1): the first slot is missing
shift(s) ==
    Series([i \in Idx(s) |-> IF i = 1 THEN NaN ELSE s[i - 1]])

\* Series.diff(): s[i] - s[i-1], the first slot is missing
diff(s) ==
    Series([i \in Idx(s) |-> IF i = 1 THEN NaN ELSE Sub(s[i], s[i - 1])])

\* Series.pct_change(): s[i]/s[i-1] - 1, the first slot is missing
pct_change(s) ==
    Series([i \in Idx(s) |-> IF i = 1 THEN NaN ELSE Sub(Div(s[i], s[i - 1]), One)])

\* Series.cumprod(), skipna: a missing slot stays missing and is skipped by
\* the running product
RECURSIVE ProdUpTo(_, _)
ProdUpTo(s, i) ==
    IF i = 0 THEN One
    ELSE IF IsNaN(s[i]) THEN ProdUpTo(s, i - 1)
    ELSE Mul(ProdUpTo(s, i - 1), s[i])

cumprod(s) ==
    Series([i \in Idx(s) |-> IF IsNaN(s[i]) THEN NaN ELSE ProdUpTo(s, i)])

fillna(s, v) ==
    Series([i \in Idx(s) |-> IF IsNaN(s[i]) THEN v ELSE s[i]])

MaxV(x, y) ==
    IF Lt(x, y) THEN y ELSE x

MinV(x, y) ==
    IF Lt(y, x) THEN y ELSE x

\* Series.cummax(), skipna
RECURSIVE MaxUpTo(_, _)
MaxUpTo(s, i) ==
    IF i = 0 THEN NaN
    ELSE IF IsNaN(s[i]) THEN MaxUpTo(s, i - 1)
    ELSE IF IsNaN(MaxUpTo(s, i - 1)) THEN s[i]
    ELSE MaxV(MaxUpTo(s, i - 1), s[i])

cummax(s) ==
    Series([i \in Idx(s) |-> IF IsNaN(s[i]) THEN NaN ELSE MaxUpTo(s, i)])

\* Series.min(), skipna; NaN for a series with no value
RECURSIVE MinUpTo(_, _)
MinUpTo(s, i) ==
    IF i = 0 THEN NaN
    ELSE IF IsNaN(s[i]) THEN MinUpTo(s, i - 1)
    ELSE IF IsNaN(MinUpTo(s, i - 1)) THEN s[i]
    ELSE MinV(MinUpTo(s, i - 1), s[i])

SeriesMin(s) ==
    MinUpTo(s, Len(s))

\* Series.sum(), skipna; 0 for a series with no value
RECURSIVE SumUpTo(_, _)
SumUpTo(s, i) ==
    IF i = 0 THEN Zero
    ELSE IF IsNaN(s[i]) THEN SumUpTo(s, i - 1)
    ELSE Add(SumUpTo(s, i - 1), s[i])

SeriesSum(s) ==
    SumUpTo(s, Len(s))

\* Series.count(): the number of slots that hold a value
Count(s) ==
    Cardinality({i \in Idx(s) : ~IsNaN(s[i])})

\* Series.mean(), skipna; NaN for a series with no value
SeriesMean(s) ==
    IF Count(s) = 0 THEN NaN ELSE Div(SeriesSum(s), FromInt(Count(s)))

\* The square of Series.std() (ddof = 1, skipna): the sample variance, NaN
\* with fewer than two values.  std = sqrt(variance), so std == 0, std > 0
\* and std is NaN exactly when the variance is.
SeriesVar(s) ==
    IF Count(s) < 2 THEN NaN
    ELSE LET m  == SeriesMean(s)
             sq == Series([i \in Idx(s) |->
                              IF IsNaN(s[i]) THEN NaN
                              ELSE Mul(Sub(s[i], m), Sub(s[i], m))])
         IN  Div(SeriesSum(sq), FromInt(Count(s) - 1))

\* the rows of s selected by the index set of rows
RECURSIVE Select(_, _, _)
Select(s, keep, i) ==
    IF i = 0 THEN << >>
    ELSE IF i \in keep THEN Append(Select(s, keep, i - 1), s[i])
    ELSE Select(s, keep, i - 1)

----------------------------------------------------------------------------
(* performance_metrics.py *)

\* A timestamp of the index is a whole number of hours since the start of
\* year 0 of a calendar whose years all have HoursPerYear hours.
HoursPerYear ==
    8760

\* index.year
Year(t) ==
    t \div HoursPerYear

RECURSIVE Insert(_, _)
Insert(sorted, v) ==
    IF sorted = << >> THEN << v >>
    ELSE IF v <= Head(sorted) THEN << v >> \o sorted
    ELSE << Head(sorted) >> \o Insert(Tail(sorted), v)

RECURSIVE Sorted(_)
Sorted(s) ==
    IF s = << >> THEN << >> ELSE Insert(Sorted(Tail(s)), Head(s))

\* twice the median of a non-empty sequence of integers
Median2(s) ==
    LET o == Sorted(s)
        k == Len(s)
    IN  IF k % 2 = 1 THEN 2 * o[(k + 1) \div 2]
        ELSE o[k \div 2] + o[k \div 2 + 1]

infer_frequency(index) ==
    IF Len(index) < 2 THEN 365
    ELSE LET time_diffs == [i \in 1 .. Len(index) - 1 |-> index[i + 1] - index[i]]
             hours2     == Median2(time_diffs)
         IN  IF hours2 <= 2 * 1 THEN 8760
             ELSE IF hours2 <= 2 * 4 THEN 2190
             ELSE IF hours2 <= 2 * 24 THEN 365
             ELSE IF hours2 <= 2 * 168 THEN 52
             ELSE 12

\* mutant: the final equity is reported, without taking off the capital
total_return_is_final_equity(equity_curve) ==
    equity_curve[Len(equity_curve)]

calculate_total_return(equity_curve) ==
    Sub(equity_curve[Len(equity_curve)], One)

\* (mean / std) * sqrt(periods): std = sqrt(variance) and sqrt(periods) are
\* irrational in general, so a non-zero finite result is kept as the triple
\* it is computed from.  NaN and an exact 0 are the values themselves.
SharpeValue(mean, variance, periods) ==
    IF IsNaN(mean) \/ IsNaN(variance) THEN NaN
    ELSE IF Sign(mean) = 0 THEN Zero
    ELSE [k |-> "root", n |-> Sign(mean), d |-> 1,
          mean |-> mean, variance |-> variance, periods |-> periods]

calculate_sharpe_ratio(returns, periods_per_year) ==
    IF Len(returns) < 2 THEN Zero
    ELSE LET mean_return == SeriesMean(returns)
             var_return  == SeriesVar(returns)
         IN  IF Eq(var_return, Zero) THEN Zero
             ELSE SharpeValue(mean_return, var_return, periods_per_year)

\* mutant: the drawdown is measured from the overall peak of the curve
drawdown_from_overall_peak(equity_curve) ==
    LET overall_max == MaxUpTo(equity_curve, Len(equity_curve))
    IN  Series([i \in Idx(equity_curve) |->
                   Div(Sub(equity_curve[i], overall_max), overall_max)])

\* the drawdown series of calculate_max_drawdown
drawdown_series(equity_curve) ==
    LET running_max == cummax(equity_curve)
    IN  Series([i \in Idx(equity_curve) |->
                   Div(Sub(equity_curve[i], running_max[i]), running_max[i])])

calculate_max_drawdown(equity_curve) ==
    SeriesMin(drawdown_series(equity_curve))

\* the 'pnl' column of the trade log
pnl_column(trades_df) ==
    Series([i \in Idx(trades_df) |-> trades_df[i].pnl])

\* trades_df[trades_df['pnl'] > 0]['pnl']
winning_pnl(trades_df) ==
    Select(pnl_column(trades_df),
           {i \in Idx(trades_df) : Gt(trades_df[i].pnl, Zero)}, Len(trades_df))

\* trades_df[trades_df['pnl'] < 0]['pnl']
losing_pnl(trades_df) ==
    Select(pnl_column(trades_df),
           {i \in Idx(trades_df) : Lt(trades_df[i].pnl, Zero)}, Len(trades_df))

calculate_win_rate(trades_df) ==
    IF Len(trades_df) = 0 THEN Zero
    ELSE Div(FromInt(Len(winning_pnl(trades_df))), FromInt(Len(trades_df)))

calculate_num_trades(trades_df) ==
    Len(trades_df)

calculate_avg_win_loss_ratio(trades_df) ==
    IF Len(trades_df) = 0 THEN Zero
    ELSE IF Len(winning_pnl(trades_df)) = 0 \/ Len(losing_pnl(trades_df)) = 0
         THEN Zero
    ELSE Div(SeriesMean(winning_pnl(trades_df)),
             Abs(SeriesMean(losing_pnl(trades_df))))

\* mutant: no losing trade always gives 0
profit_factor_zero_without_loss(trades_df) ==
    IF Len(trades_df) = 0 THEN Zero
    ELSE LET gross_profit == SeriesSum(winning_pnl(trades_df))
             gross_loss   == Abs(SeriesSum(losing_pnl(trades_df)))
         IN  IF Eq(gross_loss, Zero) THEN Zero
             ELSE Div(gross_profit, gross_loss)

calculate_profit_factor(trades_df) ==
    IF Len(trades_df) = 0 THEN Zero
    ELSE LET gross_profit == SeriesSum(winning_pnl(trades_df))
             gross_loss   == Abs(SeriesSum(losing_pnl(trades_df)))
         IN  IF Eq(gross_loss, Zero)
             THEN (IF Gt(gross_profit, Zero) THEN PosInf ELSE Zero)
             ELSE Div(gross_profit, gross_loss)

calculate_calmar_ratio(total_return, max_drawdown) ==
    IF Eq(max_drawdown, Zero) THEN Zero
    ELSE Div(total_return, Abs(max_drawdown))

\* the rows of the index that fall in year y
YearRows(index, y) ==
    {i \in Idx(index) : Year(index[i]) = y}

Years(index) ==
    {Year(index[i]) : i \in Idx(index)}

\* mutant: the year's return is taken relative to the initial capital
yearly_return_on_initial_capital(year_equity) ==
    Sub(year_equity[Len(year_equity)], One)

yearly_return(year_equity) ==
    Div(Sub(year_equity[Len(year_equity)], year_equity[1]), year_equity[1])

yearly_sharpe(year_returns, periods_per_year) ==
    LET mean_ret == SeriesMean(year_returns)
        var_ret  == SeriesVar(year_returns)
    IN  IF Gt(var_ret, Zero)
        THEN SharpeValue(mean_ret, var_ret, periods_per_year)
        ELSE Zero

calculate_yearly_metrics(index, returns, equity_curve, periods_per_year) ==
    [yearly_returns |->
        [y \in Years(index) |->
            yearly_return(Select(equity_curve, YearRows(index, y), Len(index)))],
     yearly_sharpe |->
        [y \in Years(index) |->
            yearly_sharpe(Select(returns, YearRows(index, y), Len(index)),
                          periods_per_year)],
     yearly_max_drawdown |->
        [y \in Years(index) |->
            calculate_max_drawdown(
                Select(equity_curve, YearRows(index, y), Len(index)))]]

----------------------------------------------------------------------------
(* the call backtest(data, cost) *)

VARIABLES
    data,             \* the input DataFrame: its columns, index and series
    cost,             \* the cost argument
    pc,               \* "backtest" | "identify_trades" | "returned" | "raised"
    df,               \* the columns backtest derives, and the equity curve
    row,              \* identify_trades: the number of rows scanned so far
    in_position,      \* identify_trades: the loop's locals
    entry_price,
    entry_direction,
    entry_time,
    trades,           \* identify_trades: the list of trades emitted so far
    metrics           \* the dict backtest returns

vars ==
    << data, cost, pc, df, row, in_position, entry_price, entry_direction,
       entry_time, trades, metrics >>

scan_vars ==
    << row, in_position, entry_price, entry_direction, entry_time, trades >>

\* Python's None, for the locals of identify_trades before the first entry
None ==
    [k |-> "none", n |-> 0, d |-> 1]

NoFrame ==
    [computed |-> FALSE]

NoMetrics ==
    [returned |-> FALSE]

(* bounds of the inputs *)

MaxBars ==
    3

Positions ==
    {-1, 0, 1}

Prices ==
    {2, 3, 4}

TwoPrices ==
    {2, 4}

Sizes ==
    {Num(1, 2), One}

BadSizes ==
    {Zero, FromInt(2)}

ScenarioClose ==
    << 100, 110, 99, 99 >>

\* the families of inputs: the lengths, the alphabets of the series, the
\* costs, the first timestamp and the spacing of the index, and the sets of
\* required columns left out
CoreInputs ==
    [lens |-> 1 .. MaxBars, closes |-> Prices, positions |-> Positions,
     sizes |-> {}, costs |-> {Zero}, starts |-> {0}, steps |-> {24},
     missing |-> {{}}]

CostInputs ==
    [lens |-> 1 .. MaxBars, closes |-> TwoPrices, positions |-> Positions,
     sizes |-> {}, costs |-> {Num(1, 8)}, starts |-> {0}, steps |-> {24},
     missing |-> {{}}]

SizedInputs ==
    [lens |-> 1 .. MaxBars, closes |-> TwoPrices, positions |-> {0, 1},
     sizes |-> Sizes, costs |-> {Num(1, 8)}, starts |-> {0}, steps |-> {24},
     missing |-> {{}}]

IndexedInputs ==
    [lens |-> 1 .. MaxBars, closes |-> TwoPrices, positions |-> {0, 1},
     sizes |-> {}, costs |-> {Zero},
     starts |-> {HoursPerYear - 24, HoursPerYear - 48},
     steps |-> {1, 4, 24, 168, 720},
     missing |-> {{}}]

MissingColumnInputs ==
    [lens |-> 1 .. MaxBars, closes |-> TwoPrices, positions |-> {0, 1},
     sizes |-> {}, costs |-> {Zero}, starts |-> {0}, steps |-> {24},
     missing |-> {{"Close"}, {"position"}, {"Close", "position"}}]

BadIndexInputs ==
    [lens |-> 2 .. MaxBars, closes |-> TwoPrices, positions |-> {0, 1},
     sizes |-> {}, costs |-> {Zero}, starts |-> {HoursPerYear},
     steps |-> {0, -24}, missing |-> {{}}]

BadSizeInputs ==
    [lens |-> 1 .. MaxBars, closes |-> TwoPrices, positions |-> {0, 1},
     sizes |-> BadSizes, costs |-> {Zero}, starts |-> {0}, steps |-> {24},
     missing |-> {{}}]

ScenarioInputs ==
    [lens |-> {Len(ScenarioClose)},
     closes |-> {ScenarioClose[i] : i \in 1 .. Len(ScenarioClose)},
     positions |-> {0, 1}, sizes |-> {}, costs |-> {Zero},
     starts |-> {0}, steps |-> {1}, missing |-> {{}}]

InputFamilies ==
    {CoreInputs, CostInputs, SizedInputs, IndexedInputs, MissingColumnInputs,
     BadIndexInputs, BadSizeInputs, ScenarioInputs}

\* the DataFrame with the given series; position_size is a column only when
\* a size series is given
Frame(n, start, step, close, position, size, missing) ==
    [columns |-> ({"Close", "position"} \ missing)
                     \cup (IF size = << >> THEN {} ELSE {"position_size"}),
     index |-> [i \in 1 .. n |-> start + (i - 1) * step],
     Close |-> [i \in 1 .. n |-> FromInt(close[i])],
     position |-> position,
     position_size |-> size]

Init ==
    /\ \E f \in InputFamilies :
         \E n \in f.lens, start \in f.starts, step \in f.steps,
            missing \in f.missing :
           \E close \in [1 .. n -> f.closes], position \in [1 .. n -> f.positions],
              size \in (IF f.sizes = {} THEN {<< >>} ELSE [1 .. n -> f.sizes]) :
             /\ data = Frame(n, start, step, close, position, size, missing)
             /\ cost \in f.costs
    /\ pc = "backtest"
    /\ df = NoFrame
    /\ row = 0
    /\ in_position = FALSE
    /\ entry_price = None
    /\ entry_direction = None
    /\ entry_time = None
    /\ trades = << >>
    /\ metrics = NoMetrics

NumBars ==
    Len(data.index)

\* engine.py: the columns of df
ValueSeries(ints) ==
    Series([i \in Idx(ints) |-> FromInt(ints[i])])

MulSeries(a, b) ==
    Series([i \in Idx(a) |-> Mul(a[i], b[i])])

\* mutant: the position is applied to its own row's return (no lag)
effective_position_unlagged(d) ==
    IF "position_size" \in d.columns
    THEN MulSeries(ValueSeries(d.position), d.position_size)
    ELSE ValueSeries(d.position)

effective_position(d) ==
    IF "position_size" \in d.columns
    THEN shift(MulSeries(ValueSeries(d.position), d.position_size))
    ELSE shift(ValueSeries(d.position))

strategy_returns(d) ==
    MulSeries(effective_position(d), pct_change(d.Close))

position_change(d) ==
    LET change == diff(ValueSeries(d.position))
    IN  Series([i \in Idx(change) |-> Abs(change[i])])

trade_cost(d, c) ==
    LET change == position_change(d)
    IN  Series([i \in Idx(change) |-> Mul(change[i], c)])

net_returns(d, c) ==
    LET gross == strategy_returns(d)
        costs == trade_cost(d, c)
    IN  Series([i \in Idx(gross) |-> Sub(gross[i], costs[i])])

\* mutant: the missing first slot is not filled
equity_curve_unfilled(returns) ==
    cumprod(Series([i \in Idx(returns) |-> Add(One, returns[i])]))

\* performance_metrics.py: the equity curve of calculate_all_metrics
equity_curve(returns) ==
    fillna(cumprod(Series([i \in Idx(returns) |-> Add(One, returns[i])])), One)

\* backtest raises ValueError: a required column is missing
BacktestRaise ==
    /\ pc = "backtest"
    /\ ("Close" \notin data.columns \/ "position" \notin data.columns)
    /\ pc' = "raised"
    /\ UNCHANGED << data, cost, df, scan_vars, metrics >>

\* backtest derives the columns and calls calculate_all_metrics, which
\* builds the equity curve, infers the frequency and calls identify_trades
Backtest ==
    /\ pc = "backtest"
    /\ "Close" \in data.columns
    /\ "position" \in data.columns
    /\ df' = [computed |-> TRUE,
              returns |-> pct_change(data.Close),
              effective_position |-> effective_position(data),
              strategy_returns |-> strategy_returns(data),
              position_change |-> position_change(data),
              trade_cost |-> trade_cost(data, cost),
              net_returns |-> net_returns(data, cost),
              equity_curve |-> equity_curve(net_returns(data, cost)),
              periods_per_year |-> infer_frequency(data.index)]
    /\ pc' = "identify_trades"
    /\ UNCHANGED << data, cost, scan_vars, metrics >>

\* identify_trades: data[data['position_change'] > 0]
change_points ==
    {i \in 1 .. NumBars : Gt(df.position_change[i], Zero)}

\* the row the loop of identify_trades is at
current_position ==
    data.position[row + 1]

InLoop ==
    /\ pc = "identify_trades"
    /\ change_points # {}
    /\ row < NumBars

\* mutant: the P&L is taken relative to the exit price
trade_pnl_over_exit(direction, entry, exit_price) ==
    IF direction = 1
    THEN Div(Sub(exit_price, entry), exit_price)
    ELSE Div(Sub(entry, exit_price), exit_price)

\* P&L of the trade closed at exit_price
trade_pnl(direction, entry, exit_price) ==
    IF direction = 1
    THEN Div(Sub(exit_price, entry), entry)
    ELSE Div(Sub(entry, exit_price), entry)

closed_trade(direction, entry, entered, exit_price, exit_time) ==
    [entry_time |-> entered,
     exit_time |-> exit_time,
     entry_price |-> entry,
     exit_price |-> exit_price,
     direction |-> IF direction = 1 THEN "Long" ELSE "Short",
     pnl |-> trade_pnl(direction, entry, exit_price)]

\* mutant: only a flat row closes the position
closes_position_flat_only(current, direction) ==
    current = 0

\* the condition of the elif branch, evaluated when in_position holds
closes_position(current, direction) ==
    current = 0 \/ (current # 0 /\ current # direction)

\* the row enters a position (from 0 to 1 or -1)
RowEnter ==
    /\ InLoop
    /\ ~in_position /\ current_position # 0
    /\ in_position' = TRUE
    /\ entry_price' = data.Close[row + 1]
    /\ entry_direction' = current_position
    /\ entry_time' = data.index[row + 1]
    /\ row' = row + 1
    /\ UNCHANGED << data, cost, pc, df, trades, metrics >>

\* mutant: a flip closes the trade but the new entry is not recorded
RowExit_stale_entry ==
    /\ InLoop
    /\ in_position /\ closes_position(current_position, entry_direction)
    /\ trades' = Append(trades,
                        closed_trade(entry_direction, entry_price, entry_time,
                                     data.Close[row + 1], data.index[row + 1]))
    /\ IF current_position # 0
       THEN /\ entry_direction' = current_position
            /\ UNCHANGED << in_position, entry_price, entry_time >>
       ELSE /\ in_position' = FALSE
            /\ UNCHANGED << entry_price, entry_direction, entry_time >>
    /\ row' = row + 1
    /\ UNCHANGED << data, cost, pc, df, metrics >>

\* the row exits the position (to 0) or flips it
RowExit ==
    /\ InLoop
    /\ in_position /\ closes_position(current_position, entry_direction)
    /\ trades' = Append(trades,
                        closed_trade(entry_direction, entry_price, entry_time,
                                     data.Close[row + 1], data.index[row + 1]))
    /\ IF current_position # 0
       THEN /\ entry_price' = data.Close[row + 1]
            /\ entry_direction' = current_position
            /\ entry_time' = data.index[row + 1]
            /\ in_position' = in_position
       ELSE /\ in_position' = FALSE
            /\ UNCHANGED << entry_price, entry_direction, entry_time >>
    /\ row' = row + 1
    /\ UNCHANGED << data, cost, pc, df, metrics >>

\* neither branch is taken: the position is unchanged
RowHold ==
    /\ InLoop
    /\ ~(~in_position /\ current_position # 0)
    /\ ~(in_position /\ closes_position(current_position, entry_direction))
    /\ row' = row + 1
    /\ UNCHANGED << data, cost, pc, df, in_position, entry_price,
                    entry_direction, entry_time, trades, metrics >>

\* calculate_all_metrics, from the trade log on
compile_metrics(index, returns, equity, periods_per_year, trades_df, c) ==
    LET total_return == calculate_total_return(equity)
        max_drawdown == calculate_max_drawdown(equity)
        yearly       == calculate_yearly_metrics(index, returns, equity,
                                                 periods_per_year)
    IN  [returned |-> TRUE,
         total_return |-> total_return,
         sharpe_ratio |-> calculate_sharpe_ratio(returns, periods_per_year),
         max_drawdown |-> max_drawdown,
         win_rate |-> calculate_win_rate(trades_df),
         num_trades |-> calculate_num_trades(trades_df),
         avg_win_loss_ratio |-> calculate_avg_win_loss_ratio(trades_df),
         profit_factor |-> calculate_profit_factor(trades_df),
         calmar_ratio |-> calculate_calmar_ratio(total_return, max_drawdown),
         yearly_returns |-> yearly.yearly_returns,
         yearly_sharpe |-> yearly.yearly_sharpe,
         yearly_max_drawdown |-> yearly.yearly_max_drawdown,
         cost_percent |-> c,
         equity_curve |-> equity,
         trades |-> trades_df]

\* identify_trades finds no change point and returns the empty frame;
\* calculate_all_metrics compiles the metrics and backtest returns them
IdentifyTradesEmpty ==
    /\ pc = "identify_trades"
    /\ change_points = {}
    /\ metrics' = compile_metrics(data.index, df.net_returns, df.equity_curve,
                                  df.periods_per_year, << >>, cost)
    /\ pc' = "returned"
    /\ UNCHANGED << data, cost, df, scan_vars >>

\* the loop of identify_trades has scanned every row and returns the trades;
\* calculate_all_metrics compiles the metrics and backtest returns them
CalculateAllMetrics ==
    /\ pc = "identify_trades"
    /\ change_points # {}
    /\ row = NumBars
    /\ metrics' = compile_metrics(data.index, df.net_returns, df.equity_curve,
                                  df.periods_per_year, trades, cost)
    /\ pc' = "returned"
    /\ UNCHANGED << data, cost, df, scan_vars >>

Next ==
    \/ BacktestRaise
    \/ Backtest
    \/ RowEnter
    \/ RowExit
    \/ RowHold
    \/ IdentifyTradesEmpty
    \/ CalculateAllMetrics

Spec ==
    Init /\ [][Next]_vars

----------------------------------------------------------------------------
(* Properties *)

IsZero(x) ==
    x.k = "num" /\ x.n = 0

Returned ==
    pc = "returned"

\* the size applied at row i: the position_size column, 1.0 without it
SizeAt(i) ==
    IF "position_size" \in data.columns THEN data.position_size[i] ELSE One

\* the input as the data model requires it: both required columns, strictly
\* increasing timestamps, every size in (0, 1]
WellFormed ==
    /\ {"Close", "position"} \subseteq data.columns
    /\ \A i \in 1 .. NumBars - 1 : data.index[i] < data.index[i + 1]
    /\ \A i \in 1 .. NumBars : Gt(SizeAt(i), Zero) /\ Le(SizeAt(i), One)

\* the rows among the first r at which a held position is closed: the
\* position becomes 0 after a non-zero one, or flips to the opposite sign
ClosingRows(r) ==
    {i \in 2 .. r : /\ data.position[i - 1] # 0
                    /\ data.position[i] # data.position[i - 1]}

\* C1: the number of trades identify_trades has emitted after any number of
\* rows equals the number of rows so far that close a held position, and
\* the reported log and num_trades equal that number for the whole series;
\* so an unchanged position and a position open at the end add no trade.
C1_TradesCountClosings ==
    /\ pc = "identify_trades" => Len(trades) = Cardinality(ClosingRows(row))
    /\ Returned =>
         /\ Len(metrics.trades) = Cardinality(ClosingRows(NumBars))
         /\ metrics.num_trades = Cardinality(ClosingRows(NumBars))

C1_Witness ==
    /\ Returned
    /\ metrics.num_trades = 1
    /\ data.position[NumBars] # 0
    /\ \E i \in 2 .. NumBars :
         data.position[i] # 0 /\ data.position[i] = data.position[i - 1]

\* the loop scans a row at which the position flips
FlipStep ==
    /\ pc = "identify_trades"
    /\ row' = row + 1
    /\ row >= 1
    /\ data.position[row] # 0
    /\ data.position[row + 1] = -data.position[row]

\* C2: the step that scans a flip row (direction A directly to the opposite
\* direction B) appends exactly one trade, which closes A with the exit
\* time and price of that row, and leaves the loop in a position of
\* direction B entered at the time and price of that same row.
C2_FlipClosesAndReopens ==
    [][FlipStep =>
         /\ Len(trades') = Len(trades) + 1
         /\ SubSeq(trades', 1, Len(trades)) = trades
         /\ trades'[Len(trades')].direction
              = (IF data.position[row] = 1 THEN "Long" ELSE "Short")
         /\ trades'[Len(trades')].exit_time = data.index[row + 1]
         /\ trades'[Len(trades')].exit_price = data.Close[row + 1]
         /\ trades'[Len(trades')].entry_time = entry_time
         /\ trades'[Len(trades')].entry_price = entry_price
         /\ in_position'
         /\ entry_direction' = data.position[row + 1]
         /\ entry_time' = data.index[row + 1]
         /\ entry_price' = data.Close[row + 1]]_vars

C2_Witness ==
    /\ pc = "identify_trades"
    /\ row >= 2
    /\ data.position[row - 1] # 0
    /\ data.position[row] = -data.position[row - 1]
    /\ Len(trades) >= 1
    /\ in_position

\* the scenario: prices 100, 110, 99, 99 at t = 0..3, positions 0, 1, 1, 0,
\* cost 0
Scenario ==
    /\ data.Close = ValueSeries(ScenarioClose)
    /\ data.position = << 0, 1, 1, 0 >>
    /\ data.index = << 0, 1, 2, 3 >>
    /\ data.columns = {"Close", "position"}
    /\ cost = Zero

\* C3 as stated: the scenario's single trade is entered at price 100 with
\* pnl (99 - 100) / 100.
C3_ScenarioEntryAt100 ==
    (Scenario /\ Returned) =>
        metrics.trades = << [entry_time |-> 1, exit_time |-> 3,
                             entry_price |-> FromInt(100),
                             exit_price |-> FromInt(99),
                             direction |-> "Long",
                             pnl |-> Num(-1, 100)] >>

\* C3, amended: the scenario's trade log is exactly one Long trade entered
\* at t = 1 at that row's close 110 and exited at t = 3 at 99, with
\* pnl (99 - 110) / 110 = -0.1.
C3_ScenarioEntryAt110 ==
    (Scenario /\ Returned) =>
        metrics.trades = << [entry_time |-> 1, exit_time |-> 3,
                             entry_price |-> FromInt(110),
                             exit_price |-> FromInt(99),
                             direction |-> "Long",
                             pnl |-> Num(-1, 10)] >>

C3_Witness ==
    Scenario /\ Returned /\ metrics.num_trades = 1

\* C4: for an input that is not well formed nothing is computed: no derived
\* column, no scanned row, no trade, no metrics.
C4_MalformedRejected ==
    ~WellFormed =>
        /\ pc \in {"backtest", "raised"}
        /\ ~df.computed
        /\ row = 0
        /\ trades = << >>
        /\ ~metrics.returned

\* C5: with fewer than two defined net returns the reported Sharpe ratio is
\* exactly 0, and a year with at most one defined net return has yearly
\* Sharpe exactly 0 (stated for well-formed inputs).
C5_SharpeZeroBelowTwo ==
    (Returned /\ WellFormed) =>
        /\ Count(df.net_returns) < 2 => IsZero(metrics.sharpe_ratio)
        /\ \A y \in Years(data.index) :
             Count(Select(df.net_returns, YearRows(data.index, y), NumBars)) < 2
                 => IsZero(metrics.yearly_sharpe[y])

\* C6: with every position 0 and cost 0, every net return (row 0 included)
\* is 0, every equity value is 1, the trade log is empty and the eight
\* scalar metrics are 0 (stated for well-formed inputs).
C6_AllFlatAllZero ==
    (/\ Returned
     /\ WellFormed
     /\ cost = Zero
     /\ \A i \in 1 .. NumBars : data.position[i] = 0) =>
        /\ \A i \in 1 .. NumBars : IsZero(df.net_returns[i])
        /\ \A i \in 1 .. NumBars : metrics.equity_curve[i] = One
        /\ metrics.trades = << >>
        /\ IsZero(metrics.total_return)
        /\ IsZero(metrics.sharpe_ratio)
        /\ IsZero(metrics.max_drawdown)
        /\ IsZero(metrics.win_rate)
        /\ metrics.num_trades = 0
        /\ IsZero(metrics.avg_win_loss_ratio)
        /\ IsZero(metrics.profit_factor)
        /\ IsZero(metrics.calmar_ratio)

\* position[i-1] * size[i-1] * (close[i] / close[i-1] - 1), for a row i >= 2
LaggedReturn(i) ==
    Mul(Mul(FromInt(data.position[i - 1]), SizeAt(i - 1)),
        Sub(Div(data.Close[i], data.Close[i - 1]), One))

\* |position[i] - position[i-1]| * cost, for a row i >= 2
ChangeCost(i) ==
    Mul(FromInt(AbsInt(data.position[i] - data.position[i - 1])), cost)

\* the part of C7 about the rows after the first
LaggedRows ==
    \A i \in 2 .. NumBars :
        /\ df.strategy_returns[i] = LaggedReturn(i)
        /\ df.net_returns[i] = Sub(LaggedReturn(i), ChangeCost(i))

\* C7 as stated: every later row earns the previous row's position and size
\* on its own price change, less the cost of its own position change, and
\* the effective position of the first row is zero.
C7_FirstRowZero ==
    df.computed =>
        /\ LaggedRows
        /\ IsZero(df.effective_position[1])

\* C7, amended: every later row earns the previous row's position and size
\* on its own price change, less the cost of its own position change; the
\* effective position and the returns of the first row are undefined (NaN,
\* not zero), and the first equity value is 1, so the first row adds no
\* return.
C7_LaggedPosition ==
    df.computed =>
        /\ LaggedRows
        /\ IsNaN(df.effective_position[1])
        /\ IsNaN(df.strategy_returns[1])
        /\ IsNaN(df.net_returns[1])
        /\ df.equity_curve[1] = One

C7_Witness ==
    /\ df.computed
    /\ NumBars >= 3
    /\ cost # Zero
    /\ "position_size" \in data.columns
    /\ data.position_size[2] # data.position_size[3]
    /\ data.position[2] # data.position[3]
    /\ ~IsZero(df.strategy_returns[3])

\* C8: the first equity value is exactly 1 and every later one is the
\* previous one times (1 + net_return); no equity value is undefined.
C8_EquityRecurrence ==
    df.computed =>
        /\ df.equity_curve[1] = One
        /\ \A i \in 2 .. NumBars :
             df.equity_curve[i]
                 = Mul(df.equity_curve[i - 1], Add(One, df.net_returns[i]))
        /\ \A i \in 1 .. NumBars : IsNum(df.equity_curve[i])

C8_Witness ==
    /\ Returned
    /\ WellFormed
    /\ NumBars >= 3
    /\ IsNaN(df.net_returns[1])
    /\ metrics.equity_curve[2] # One
    /\ metrics.equity_curve[3] # metrics.equity_curve[2]

\* the running peak of the equity curve at row i
Peak(equity, i) ==
    CHOOSE m \in {equity[j] : j \in 1 .. i} :
        \A j \in 1 .. i : Le(equity[j], m)

\* the drawdown at row i
DrawdownAt(equity, i) ==
    Div(Sub(equity[i], Peak(equity, i)), Peak(equity, i))

\* C9: the drawdown at every row is <= 0 and is what calculate_max_drawdown
\* works with; the reported max_drawdown is the least of the drawdowns, and
\* is 0 when the equity never falls below its running peak.
C9_MaxDrawdownIsMinimum ==
    Returned =>
        /\ \A i \in 1 .. NumBars :
             /\ Le(DrawdownAt(metrics.equity_curve, i), Zero)
             /\ drawdown_series(metrics.equity_curve)[i]
                  = DrawdownAt(metrics.equity_curve, i)
             /\ Le(metrics.max_drawdown, DrawdownAt(metrics.equity_curve, i))
        /\ \E i \in 1 .. NumBars :
             metrics.max_drawdown = DrawdownAt(metrics.equity_curve, i)
        /\ (\A i \in 1 .. NumBars :
               metrics.equity_curve[i] = Peak(metrics.equity_curve, i))
             => IsZero(metrics.max_drawdown)

C9_Witness ==
    /\ Returned
    /\ NumBars >= 3
    /\ Lt(metrics.max_drawdown, Zero)
    /\ Lt(metrics.max_drawdown, DrawdownAt(metrics.equity_curve, NumBars))
    /\ Lt(One, Peak(metrics.equity_curve, NumBars))

\* the sum of the pnl of the first i trades whose pnl has the given sign
RECURSIVE SignedPnl(_, _, _)
SignedPnl(log, i, sign) ==
    IF i = 0 THEN Zero
    ELSE IF Sign(log[i].pnl) = sign
         THEN Add(SignedPnl(log, i - 1, sign), log[i].pnl)
    ELSE SignedPnl(log, i - 1, sign)

Winners(log) ==
    {i \in 1 .. Len(log) : Sign(log[i].pnl) = 1}

Losers(log) ==
    {i \in 1 .. Len(log) : Sign(log[i].pnl) = -1}

\* C10: profit_factor is 0 on an empty log; without a losing trade it is
\* +infinity if a trade wins and 0 otherwise; else it is the sum of the
\* winning pnl over the size of the sum of the losing pnl.  So it is >= 0
\* or +infinity.  win_rate is the share of winning trades, within [0, 1],
\* and 0 on an empty log.
C10_ProfitFactorAndWinRate ==
    Returned =>
        LET log == metrics.trades
            pf  == metrics.profit_factor
            wr  == metrics.win_rate
        IN  /\ \A i \in 1 .. Len(log) : IsNum(log[i].pnl)
            /\ Len(log) = 0 => IsZero(pf) /\ IsZero(wr)
            /\ (Len(log) > 0 /\ Losers(log) = {} /\ Winners(log) # {})
                 => pf = PosInf
            /\ (Len(log) > 0 /\ Losers(log) = {} /\ Winners(log) = {})
                 => IsZero(pf)
            /\ Losers(log) # {}
                 => pf = Div(SignedPnl(log, Len(log), 1),
                             Abs(SignedPnl(log, Len(log), -1)))
            /\ pf = PosInf \/ (IsNum(pf) /\ pf.n >= 0)
            /\ Len(log) > 0
                 => wr = Num(Cardinality(Winners(log)), Len(log))
            /\ IsNum(wr) /\ Le(Zero, wr) /\ Le(wr, One)

C10_Witness ==
    /\ Returned
    /\ Winners(metrics.trades) # {}
    /\ Losers(metrics.trades) # {}
    /\ IsNum(metrics.profit_factor)
    /\ metrics.profit_factor # One
    /\ metrics.win_rate = Num(1, 2)

\* the first and the last row of year y
FirstRow(y) ==
    CHOOSE i \in YearRows(data.index, y) :
        \A j \in YearRows(data.index, y) : i <= j

LastRow(y) ==
    CHOOSE i \in YearRows(data.index, y) :
        \A j \in YearRows(data.index, y) : j <= i

\* the peak of the equity over the rows of year y up to row i
YearPeak(equity, y, i) ==
    CHOOSE m \in {equity[j] : j \in {r \in YearRows(data.index, y) : r <= i}} :
        \A j \in {r \in YearRows(data.index, y) : r <= i} : Le(equity[j], m)

YearDrawdownAt(equity, y, i) ==
    Div(Sub(equity[i], YearPeak(equity, y, i)), YearPeak(equity, y, i))

\* the index spans exactly two years
TwoYears ==
    Cardinality(Years(data.index)) = 2

Year1 ==
    CHOOSE y \in Years(data.index) : \A z \in Years(data.index) : y <= z

Year2 ==
    CHOOSE y \in Years(data.index) : \A z \in Years(data.index) : z <= y

\* each year's return is (last equity in year) / (first equity in year) - 1,
\* and each year's max drawdown is the least drawdown from a running peak
\* taken over that year's rows only
YearlyFormulas ==
    \A y \in Years(data.index) :
        /\ metrics.yearly_returns[y]
             = Sub(Div(metrics.equity_curve[LastRow(y)],
                       metrics.equity_curve[FirstRow(y)]), One)
        /\ \A i \in YearRows(data.index, y) :
             Le(metrics.yearly_max_drawdown[y],
                YearDrawdownAt(metrics.equity_curve, y, i))
        /\ \E i \in YearRows(data.index, y) :
             metrics.yearly_max_drawdown[y]
                 = YearDrawdownAt(metrics.equity_curve, y, i)

\* what C11 concludes for the two years
YearlyScenarioHolds ==
    /\ IsZero(metrics.yearly_returns[Year1])
    /\ Lt(metrics.yearly_returns[Year2], Zero)
    /\ IsZero(metrics.yearly_max_drawdown[Year1])

\* the trade log is a single losing trade
SingleLosingTrade ==
    /\ Len(metrics.trades) = 1
    /\ Lt(metrics.trades[1].pnl, Zero)

FlatYearThenLosingLong ==
    /\ WellFormed
    /\ TwoYears
    /\ "position_size" \notin data.columns
    /\ cost = Zero
    /\ \A i \in YearRows(data.index, Year1) : data.position[i] = 0
    /\ data.position[NumBars] = 0
    /\ SingleLosingTrade
    /\ metrics.trades[1].direction = "Long"

ClosingRow(k) ==
    CHOOSE r \in ClosingRows(NumBars) :
        Cardinality({x \in ClosingRows(NumBars) : x <= r}) = k

\* the k-th trade was closed by a flip: the position at its closing row is
\* not flat
ClosedByFlip(k) ==
    data.position[ClosingRow(k)] # 0

\* the order of the trade log, in timestamps
TradeLogOrdered ==
    LET log == metrics.trades
    IN  /\ \A k \in 1 .. Len(log) : log[k].entry_time < log[k].exit_time
        /\ \A k \in 1 .. Len(log) - 1 :
             /\ log[k].exit_time < log[k + 1].exit_time
             /\ log[k + 1].entry_time >= log[k].exit_time
             /\ log[k + 1].entry_time = log[k].exit_time <=> ClosedByFlip(k)
        /\ (\A i \in 2 .. NumBars : data.position[i] = data.position[i - 1])
             => log = << >>

\* C12: in every trade log the engine returns, exit times increase
\* strictly, every trade is entered strictly before it is exited, a trade
\* is entered no earlier than the previous one was exited, at the same time
\* exactly when the previous one was closed by a flip, and the log is empty
\* when the position never changes.
C12_TradeLogOrdered ==
    Returned => TradeLogOrdered

\* C12 on the inputs the data model allows (strictly increasing timestamps,
\* sizes in (0, 1]): the order of C12 holds.
C12_OrderedOnWellFormed ==
    (Returned /\ WellFormed) => TradeLogOrdered

\* long-only at size 1 and cost 0, flat at the last row
LongOnlyRoundTrips ==
    /\ \A i \in 1 .. NumBars : data.position[i] \in {0, 1}
    /\ \A i \in 1 .. NumBars : SizeAt(i) = One
    /\ cost = Zero
    /\ data.position[NumBars] = 0

\* the product of (1 + pnl) over the first k trades
RECURSIVE GrowthOfTrades(_, _)
GrowthOfTrades(log, k) ==
    IF k = 0 THEN One
    ELSE Mul(GrowthOfTrades(log, k - 1), Add(One, log[k].pnl))

\* row i lies after the entry row and up to the exit row of some trade
InsideTrade(i) ==
    \E k \in 1 .. Len(metrics.trades) :
        /\ metrics.trades[k].entry_time < data.index[i]
        /\ data.index[i] <= metrics.trades[k].exit_time

\* C13: long-only at size 1 and cost 0 with a flat last row, 1 + total_return
\* is the product of (1 + pnl) over the trade log; and, the timestamps
\* increasing, the effective position is non-zero exactly at the rows after
\* a trade's entry row up to and including its exit row.
C13_EquityMatchesTrades ==
    (Returned /\ LongOnlyRoundTrips) =>
        /\ Add(One, metrics.total_return)
             = GrowthOfTrades(metrics.trades, Len(metrics.trades))
        /\ (\A i \in 1 .. NumBars - 1 : data.index[i] < data.index[i + 1])
             => \A i \in 2 .. NumBars :
                  ~IsZero(df.effective_position[i]) <=> InsideTrade(i)

C13_Witness ==
    /\ Returned
    /\ LongOnlyRoundTrips
    /\ metrics.num_trades = 2
    /\ ~IsZero(metrics.total_return)
    /\ \E i \in 2 .. NumBars : IsZero(df.effective_position[i])

====
